---- MODULE Spec2Model ----
(***************************************************************************)
(* A model of src/translator.py: the engine catalog MODEL_DICT, the        *)
(* dispatcher translate_text and the Streamlit script main().              *)
(*                                                                         *)
(* A Python string is a sequence of atoms; an atom stands for a piece of   *)
(* text that no operation of the program looks inside ("OpenAI", "hi") or  *)
(* for a single character the program tests for (" ", "/").  Two strings   *)
(* are equal exactly when their atom sequences are equal.                  *)
(* A Python value is a record tagged with its type, so that None and a     *)
(* string are different values.                                            *)
(***************************************************************************)
EXTENDS Naturals, Sequences

VARIABLES
    avail_models_yaml,  \* configs/avail_models.yaml: its <<label, model id>> entries
    MODEL_DICT,         \* the catalog: an ordered mapping, <<label, model id>> pairs
    text_to_translate,  \* the "source_text" text area
    engine,             \* the "Translation Engine" selectbox
    tgt_lang,           \* the "Target Language" selectbox
    compare_engines,    \* the multiselect, in selection order
    layout_option,      \* the "Comparison Layout" radio
    session_state,      \* st.session_state, an ordered mapping of <<key, value>>
    translated_text,    \* what the "Translation Result" text area shows
    compare_display,    \* the comparison panes of the last script run
    warning,            \* the st.warning of the last script run
    button,             \* the button that triggered the last script run
    calls               \* the translate_text invocations of the last script run

vars == <<avail_models_yaml, MODEL_DICT, text_to_translate, engine, tgt_lang, compare_engines,
          layout_option, session_state, translated_text, compare_display,
          warning, button, calls>>

ui == <<text_to_translate, engine, tgt_lang, compare_engines, layout_option,
        session_state, translated_text, compare_display, warning, button>>

-----------------------------------------------------------------------------
(* The records of the model, each built by one constructor so that its     *)
(* fields are written in the same order everywhere                          *)

\* a Python value: a string (its atoms) or None
PyValue(type, s) == [type |-> type, s |-> s]
\* what a backend call did: raised e, or returned body
Reply(raises, e, body) == [raises |-> raises, e |-> e, body |-> body]
\* one chat message of a request
Message(role, content) == [role |-> role, content |-> content]
\* one outbound call and the reply it got
Request(api, model, messages, reply) ==
    [api |-> api, model |-> model, messages |-> messages, reply |-> reply]
\* what an invocation of translate_text did and how it ended
Outcome(client, lookups, outbound, raised, caught, error, ret) ==
    [client |-> client, lookups |-> lookups, outbound |-> outbound,
     raised |-> raised, caught |-> caught, error |-> error, ret |-> ret]
\* the arguments of an invocation
Args(text, label, target_lang) ==
    [engine |-> label, text |-> text, target_lang |-> target_lang]
Invocation(args, did) == [args |-> args, did |-> did]
\* one pane of the comparison section
Pane(eng_name, result) == [eng_name |-> eng_name, result |-> result]

-----------------------------------------------------------------------------
(* Bounds *)

\* the longest text typed or passed, in atoms
MaxTextLen == 1
\* the most engines selected for comparison at a time
MaxSelected == 2

-----------------------------------------------------------------------------
(* Python values and strings *)

Str(s) == PyValue("str", s)
None == PyValue("NoneType", <<>>)

Whitespace == {" ", "\n"}

RECURSIVE lstrip(_)
lstrip(s) == IF s # <<>> /\ Head(s) \in Whitespace THEN lstrip(Tail(s)) ELSE s

RECURSIVE rstrip(_)
rstrip(s) ==
    IF s # <<>> /\ s[Len(s)] \in Whitespace
    THEN rstrip(SubSeq(s, 1, Len(s) - 1))
    ELSE s

\* str.strip()
strip(s) == rstrip(lstrip(s))

\* s.split("/")[0]: the part of s before its first "/", all of s when it has none
RECURSIVE split0(_)
split0(s) ==
    IF s = <<>> \/ Head(s) = "/" THEN <<>> ELSE <<Head(s)>> \o split0(Tail(s))

\* Ordered mappings (dict, st.session_state): sequences of <<key, value>>
Keys(d) == [i \in DOMAIN d |-> d[i][1]]
HasKey(d, k) == \E i \in DOMAIN d : d[i][1] = k
GetItem(d, k) == d[CHOOSE i \in DOMAIN d : d[i][1] = k][2]
DictGet(d, k, default) == IF HasKey(d, k) THEN GetItem(d, k) ELSE default
DictSet(d, k, v) ==
    IF HasKey(d, k)
    THEN [i \in DOMAIN d |-> IF d[i][1] = k THEN <<k, v>> ELSE d[i]]
    ELSE Append(d, <<k, v>>)

\* repr() of a string key, as str(KeyError(key)) prints it
Repr(s) == <<"'">> \o s \o <<"'">>

-----------------------------------------------------------------------------
(* The fixed strings of translate_text *)

Guidance == <<"Please enter or paste the text to be translated.">>
NoEngine == <<"No translation engine selected.">>
ErrMarker == <<"Error occurred during translation: ">>
Instruction ==
    <<"You are a helpful translator. However, only the translation result should be output. Code blocks or phrases like \"Here is the translation result:\" should not be included. ">>

SystemPrompt(target_lang) ==
    Instruction \o <<"Please translate into ">> \o target_lang \o <<".">>

OllamaPrompt(text, target_lang) ==
    Instruction \o <<"Please translate into ">> \o target_lang \o <<".\n\n">>
        \o <<"Source Sentence: ">> \o text \o <<"\n">> \o <<"Target Sentence: ">>

-----------------------------------------------------------------------------
(* The two backends, as translate_text sees them.  What a backend does with *)
(* a request is not decided by the program: every reply below is one the    *)
(* client library can hand back, and each call draws one of them.           *)

Raises(msg, nothing) == Reply(TRUE, msg, nothing)
Returns(body) == Reply(FALSE, <<>>, body)

\* OpenAI(): the constructor raises when no API key is configured
ApiKeyMissing == <<"The api_key client option must be set">>

\* client.chat.completions.create(...): a ChatCompletion, whose message content
\* is a string or None, or an exception
Completion(contents) == [choices |-> [i \in DOMAIN contents |-> [message |-> [content |-> contents[i]]]]]
OpenAIReplies ==
    { Returns(Completion(<<Str(<<"X">>)>>)),
      Returns(Completion(<<Str(ErrMarker \o <<"X">>)>>)),
      Returns(Completion(<<None>>)),
      Returns(Completion(<<>>)),
      Raises(<<"Connection error.">>, Completion(<<>>)) }

\* ollama.chat(...): a subscriptable response, or an exception
ChatResponse(content) == << <<"message", << <<"content", content>> >> >> >>
OllamaReplies ==
    { Returns(ChatResponse(Str(<<"Y">>))),
      Returns(ChatResponse(None)),
      Returns(<<>>),
      Raises(<<"Failed to connect to Ollama.">>, <<>>) }

-----------------------------------------------------------------------------
(* translate_text.  An invocation is described by a record: what it was     *)
(* called with, what it did (client construction, catalog lookups, outbound *)
(* calls with the reply each got) and how it ended.                         *)

\* the body of the try statement ends by a return or by an exception
Returned(client, lookups, outbound, v) ==
    Outcome(client, lookups, outbound, FALSE, FALSE, <<>>, v)
Raised(client, lookups, outbound, msg) ==
    Outcome(client, lookups, outbound, TRUE, FALSE, msg, None)

\* mutants of OpenAIContent: the message instead of its content; a failed call
\* made a second time
OpenAIContent_Message(lookups, call) ==
    IF call.reply.raises
    THEN Raised("ok", lookups, <<call>>, call.reply.e)
    ELSE IF Len(call.reply.body.choices) = 0
    THEN Raised("ok", lookups, <<call>>, <<"list index out of range">>)
    ELSE Returned("ok", lookups, <<call>>, PyValue("ChatCompletionMessage", <<>>))
OpenAIContent_Retry(lookups, call) ==
    IF call.reply.raises
    THEN Raised("ok", lookups, <<call, call>>, call.reply.e)
    ELSE IF Len(call.reply.body.choices) = 0
    THEN Raised("ok", lookups, <<call>>, <<"list index out of range">>)
    ELSE Returned("ok", lookups, <<call>>, call.reply.body.choices[1].message.content)

\* translation = completion.choices[0].message.content
OpenAIContent(lookups, call) ==
    IF call.reply.raises
    THEN Raised("ok", lookups, <<call>>, call.reply.e)
    ELSE IF Len(call.reply.body.choices) = 0
    THEN Raised("ok", lookups, <<call>>, <<"list index out of range">>)
    ELSE Returned("ok", lookups, <<call>>, call.reply.body.choices[1].message.content)

\* if main_engine == "OpenAI": ...
OpenAIBranch(text, label, target_lang) ==
    LET messages == << Message("system", SystemPrompt(target_lang)),
                       Message("user", text) >>
    IN  { Raised("raise", <<>>, <<>>, ApiKeyMissing) }
        \cup
        IF ~HasKey(MODEL_DICT, label)
        THEN { Raised("ok", <<label>>, <<>>, Repr(label)) }
        ELSE { OpenAIContent(<<label>>,
                   Request("OpenAI", GetItem(MODEL_DICT, label), messages, reply)) :
               reply \in OpenAIReplies }

\* mutant of OllamaContent: the message instead of its content
OllamaContent_Message(lookups, call) ==
    IF call.reply.raises
    THEN Raised("none", lookups, <<call>>, call.reply.e)
    ELSE IF ~HasKey(call.reply.body, "message")
    THEN Raised("none", lookups, <<call>>, Repr(<<"message">>))
    ELSE Returned("none", lookups, <<call>>, PyValue("Message", <<>>))

\* translation = response["message"]["content"]
OllamaContent(lookups, call) ==
    IF call.reply.raises
    THEN Raised("none", lookups, <<call>>, call.reply.e)
    ELSE IF ~HasKey(call.reply.body, "message")
    THEN Raised("none", lookups, <<call>>, Repr(<<"message">>))
    ELSE IF ~HasKey(GetItem(call.reply.body, "message"), "content")
    THEN Raised("none", lookups, <<call>>, Repr(<<"content">>))
    ELSE Returned("none", lookups, <<call>>,
                  GetItem(GetItem(call.reply.body, "message"), "content"))

\* elif main_engine == "Ollama": ...
OllamaBranch(text, label, target_lang) ==
    LET messages == << Message("user", OllamaPrompt(text, target_lang)) >>
    IN  IF ~HasKey(MODEL_DICT, label)
        THEN { Raised("none", <<label>>, <<>>, Repr(label)) }
        ELSE { OllamaContent(<<label>>,
                   Request("Ollama", GetItem(MODEL_DICT, label), messages, reply)) :
               reply \in OllamaReplies }

\* else: translation = "No translation engine selected."
ElseBranch == { Returned("none", <<>>, <<>>, Str(NoEngine)) }

\* mutant of TryBody: whatever is not "OpenAI" is taken for "Ollama"
TryBody_TwoWay(text, label, target_lang) ==
    IF split0(label) = <<"OpenAI">> THEN OpenAIBranch(text, label, target_lang)
    ELSE OllamaBranch(text, label, target_lang)

\* the statements inside try
TryBody(text, label, target_lang) ==
    LET main_engine == split0(label)
    IN  IF main_engine = <<"OpenAI">> THEN OpenAIBranch(text, label, target_lang)
        ELSE IF main_engine = <<"Ollama">> THEN OllamaBranch(text, label, target_lang)
        ELSE ElseBranch

\* except Exception as e: return f"Error occurred during translation: {e}"
Except(o) ==
    IF o.raised
    THEN [o EXCEPT !.raised = FALSE, !.caught = TRUE, !.ret = Str(ErrMarker \o o.error)]
    ELSE o

\* mutant of IsBlank: the text is not stripped
IsBlank_NoStrip(text) == text = <<>>

\* if not text.strip(): return "Please enter or paste the text to be translated."
IsBlank(text) == strip(text) = <<>>

\* The set of ways translate_text(text, label, target_lang) can run
translate_text(text, label, target_lang) ==
    LET outcomes ==
            IF IsBlank(text)
            THEN { Returned("none", <<>>, <<>>, Str(Guidance)) }
            ELSE { Except(o) : o \in TryBody(text, label, target_lang) }
    IN  { Invocation(Args(text, label, target_lang), o) : o \in outcomes }

-----------------------------------------------------------------------------
(* The inputs *)

\* sequences over S of length at most n
RECURSIVE SeqsUpTo(_, _)
SeqsUpTo(S, n) ==
    IF n = 0 THEN { <<>> }
    ELSE LET shorter == SeqsUpTo(S, n - 1)
         IN  shorter \cup { Append(s, x) : s \in shorter, x \in S }

Texts == SeqsUpTo({" ", "hi"}, MaxTextLen)

available_languages == << <<"Japanese">>, <<"English (United States)">> >>
Range(f) == { f[i] : i \in DOMAIN f }

GPT4o == <<"OpenAI", "/", "GPT-4o">>
Gemma == <<"Ollama", "/", "gemma-3-27b-it-gguf">>
Local == <<"Local", "/", "llama">>

\* Contents of configs/avail_models.yaml: a mapping document, one entry per
\* line.  Nothing restricts the backend part of a label, and a label may be
\* written twice.
ConfigFiles ==
    { << <<GPT4o, <<"gpt-4o">> >>, <<Gemma, <<"gemma3:27b">> >>, <<Local, <<"llama3">> >> >>,
      << <<Gemma, <<"gemma3:4b">> >>, <<GPT4o, <<"gpt-4o-mini">> >>, <<Gemma, <<"gemma3:27b">> >> >> }

\* yaml.safe_load of a mapping document: a dict in the order the keys first
\* appear, a repeated key keeping its last value
RECURSIVE LoadInto(_, _)
LoadInto(d, entries) ==
    IF entries = <<>> THEN d
    ELSE LoadInto(DictSet(d, Head(entries)[1], Head(entries)[2]), Tail(entries))
safe_load(f) == LoadInto(<<>>, f)

\* engine labels a caller may pass, in the catalog or not
Labels ==
    { GPT4o, Gemma, Local,
      <<"OpenAI", "/", "other">>, <<"Ollama", "/", "other">>,
      <<"Unknown", "/", "Whatever">>,
      <<"OpenAI">>, <<"Ollama", "/", "a", "/", "b">>,
      <<"openai", "/", "GPT-4o">>, <<"OpenAI", "x", "/", "GPT-4o">>,
      <<"/", "OpenAI">>, <<>> }

-----------------------------------------------------------------------------
(* The script: one action per script run.  Streamlit runs the script top to *)
(* bottom on load and after every widget interaction, the module-level load *)
(* of the catalog included; a button is True only in the run its click      *)
(* triggered.  No statement of the script writes the configuration file.    *)

\* with open("configs/avail_models.yaml", ...) as f: MODEL_DICT = yaml.safe_load(f)
LoadCatalog ==
    /\ MODEL_DICT' = safe_load(avail_models_yaml)
    /\ UNCHANGED avail_models_yaml

available_engines == Keys(MODEL_DICT)

\* translation = st.session_state.get("translation", ""); st.text_area("", translation, ...)
ResultSlot(state) == DictGet(state, "translation", Str(<<>>))

\* the script run after a widget changed: no button is pressed
Rerun ==
    /\ translated_text' = ResultSlot(session_state)
    /\ compare_display' = <<>>
    /\ warning' = FALSE
    /\ button' = "none"
    /\ calls' = <<>>
    /\ LoadCatalog
    /\ UNCHANGED session_state

Init ==
    /\ avail_models_yaml \in ConfigFiles
    /\ MODEL_DICT = safe_load(avail_models_yaml)
    /\ text_to_translate = <<>>
    /\ engine = available_engines[1]
    /\ tgt_lang = available_languages[1]
    /\ compare_engines = <<>>
    /\ layout_option = "Horizontal"
    /\ session_state = <<>>
    /\ translated_text = Str(<<>>)
    /\ compare_display = <<>>
    /\ warning = FALSE
    /\ button = "none"
    /\ calls = <<>>

EditText ==
    \E t \in Texts :
        /\ text_to_translate' = t
        /\ Rerun
        /\ UNCHANGED <<engine, tgt_lang, compare_engines, layout_option>>

SelectEngine ==
    \E e \in Range(available_engines) :
        /\ engine' = e
        /\ Rerun
        /\ UNCHANGED <<text_to_translate, tgt_lang, compare_engines, layout_option>>

SelectLanguage ==
    \E l \in Range(available_languages) :
        /\ tgt_lang' = l
        /\ Rerun
        /\ UNCHANGED <<text_to_translate, engine, compare_engines, layout_option>>

Remove(s, x) == SelectSeq(s, LAMBDA y : y # x)

\* the multiselect: an engine is added at the end of the selection, or removed
SelectCompareEngine ==
    \E e \in Range(available_engines) :
        /\ e \notin Range(compare_engines)
        /\ Len(compare_engines) < MaxSelected
        /\ compare_engines' = Append(compare_engines, e)
        /\ Rerun
        /\ UNCHANGED <<text_to_translate, engine, tgt_lang, layout_option>>

DeselectCompareEngine ==
    \E e \in Range(compare_engines) :
        /\ compare_engines' = Remove(compare_engines, e)
        /\ Rerun
        /\ UNCHANGED <<text_to_translate, engine, tgt_lang, layout_option>>

SelectLayout ==
    \E o \in {"Horizontal", "Vertical"} :
        /\ layout_option' = o
        /\ Rerun
        /\ UNCHANGED <<text_to_translate, engine, tgt_lang, compare_engines>>

\* mutant of RunTranslation: the catalog entry is popped, not read
RunTranslation_Pop ==
    \E c \in translate_text(text_to_translate, engine, tgt_lang) :
        /\ session_state' = DictSet(session_state, "translation", c.did.ret)
        /\ translated_text' = ResultSlot(session_state')
        /\ compare_display' = <<>>
        /\ warning' = FALSE
        /\ button' = "Run Translation"
        /\ calls' = <<c>>
        /\ MODEL_DICT' = SelectSeq(safe_load(avail_models_yaml),
                                   LAMBDA entry : entry[1] \notin Range(c.did.lookups))
        /\ UNCHANGED <<avail_models_yaml, text_to_translate, engine, tgt_lang,
                       compare_engines, layout_option>>

\* if st.button("Run Translation"):
\*     st.session_state["translation"] = translate_text(text_to_translate, engine, tgt_lang)
RunTranslation ==
    \E c \in translate_text(text_to_translate, engine, tgt_lang) :
        /\ session_state' = DictSet(session_state, "translation", c.did.ret)
        /\ translated_text' = ResultSlot(session_state')
        /\ compare_display' = <<>>
        /\ warning' = FALSE
        /\ button' = "Run Translation"
        /\ calls' = <<c>>
        /\ LoadCatalog
        /\ UNCHANGED <<text_to_translate, engine, tgt_lang,
                       compare_engines, layout_option>>

\* mutant of CompareLoop: every engine's result comes from the main engine
RECURSIVE CompareLoop_MainEngine(_, _, _)
CompareLoop_MainEngine(es, compare_results, done) ==
    IF es = <<>> THEN { <<compare_results, done>> }
    ELSE UNION { CompareLoop_MainEngine(Tail(es),
                             DictSet(compare_results, Head(es), c.did.ret),
                             Append(done, c)) :
                 c \in translate_text(text_to_translate, engine, tgt_lang) }

\* for e in compare_engines: compare_results[e] = translate_text(text_to_translate, e, tgt_lang)
\* The ways the loop can run over the engines es, starting from the results so
\* far: each is <<compare_results, invocations>>.
RECURSIVE CompareLoop(_, _, _)
CompareLoop(es, compare_results, done) ==
    IF es = <<>> THEN { <<compare_results, done>> }
    ELSE UNION { CompareLoop(Tail(es),
                             DictSet(compare_results, Head(es), c.did.ret),
                             Append(done, c)) :
                 c \in translate_text(text_to_translate, Head(es), tgt_lang) }

\* what the comparison section shows for compare_results under a layout
Panes(compare_results) ==
    [i \in DOMAIN compare_results |->
        Pane(compare_results[i][1], compare_results[i][2])]

\* mutant of Compare: the last result is also stored as the session's translation
Compare_WritesTranslation ==
    \E run \in CompareLoop(compare_engines, <<>>, <<>>) :
        /\ compare_display' = Panes(run[1])
        /\ warning' = (layout_option # "Vertical" /\ Len(run[1]) = 0)
        /\ calls' = run[2]
        /\ session_state' =
              IF run[1] = <<>> THEN session_state
              ELSE DictSet(session_state, "translation", run[1][Len(run[1])][2])
        /\ translated_text' = ResultSlot(session_state)
        /\ button' = "Compare"
        /\ LoadCatalog
        /\ UNCHANGED <<text_to_translate, engine, tgt_lang,
                       compare_engines, layout_option>>

\* if st.button("Compare"): ...
Compare ==
    \E run \in CompareLoop(compare_engines, <<>>, <<>>) :
        /\ compare_display' = Panes(run[1])
        /\ warning' = (layout_option # "Vertical" /\ Len(run[1]) = 0)
        /\ calls' = run[2]
        /\ translated_text' = ResultSlot(session_state)
        /\ button' = "Compare"
        /\ LoadCatalog
        /\ UNCHANGED <<text_to_translate, engine, tgt_lang,
                       compare_engines, layout_option, session_state>>

Next ==
    \/ EditText
    \/ SelectEngine
    \/ SelectLanguage
    \/ SelectCompareEngine
    \/ DeselectCompareEngine
    \/ SelectLayout
    \/ RunTranslation
    \/ Compare

Spec == Init /\ [][Next]_vars

-----------------------------------------------------------------------------
(* translate_text called directly, with any text, label and language *)

Call ==
    \E t \in Texts, l \in Labels, tl \in Range(available_languages) :
        \E c \in translate_text(t, l, tl) :
            /\ calls' = <<c>>
            /\ UNCHANGED <<avail_models_yaml, MODEL_DICT>>
            /\ UNCHANGED ui

NextCall == Call

SpecCall == Init /\ [][NextCall]_vars

-----------------------------------------------------------------------------
(* Vocabulary of the properties, stated without the operators of the model *)

WhitespaceOnly(t) == \A j \in DOMAIN t : t[j] \in {" ", "\n"}

\* the substring of a label before its first "/"
BackendOf(l) ==
    LET slashes == { j \in DOMAIN l : l[j] = "/" }
    IN  IF slashes = {} THEN l
        ELSE SubSeq(l, 1, (CHOOSE j \in slashes : \A k \in slashes : j <= k) - 1)

Recognized(l) == BackendOf(l) \in { <<"OpenAI">>, <<"Ollama">> }
InCatalog(l) == \E i \in DOMAIN MODEL_DICT : MODEL_DICT[i][1] = l

IsString(v) == v.type = "str"
IsStringOf(v, atoms) == v.type = "str" /\ v.s = atoms
HasErrorPrefix(v) ==
    /\ v.type = "str"
    /\ Len(v.s) >= 1
    /\ v.s[1] = "Error occurred during translation: "

GuidanceText == <<"Please enter or paste the text to be translated.">>
NoEngineText == <<"No translation engine selected.">>

\* the content of a reply, when the reply carries one
OpenAIAnswers(reply, v) ==
    /\ ~reply.raises
    /\ Len(reply.body.choices) >= 1
    /\ reply.body.choices[1].message.content = v
OllamaAnswers(reply, v) ==
    /\ ~reply.raises
    /\ \E i \in DOMAIN reply.body :
          /\ reply.body[i][1] = "message"
          /\ \E j \in DOMAIN reply.body[i][2] :
                reply.body[i][2][j] = <<"content", v>>

\* a reply that is no well-formed answer: it carries no string content
Malformed(call) ==
    /\ ~call.reply.raises
    /\ ~\E atoms \in SeqsUpTo({"X", "Y", "Error occurred during translation: "}, 2) :
          IF call.api = "OpenAI"
          THEN OpenAIAnswers(call.reply, Str(atoms))
          ELSE OllamaAnswers(call.reply, Str(atoms))

-----------------------------------------------------------------------------
(* Properties of translate_text, over the invocations of the last step *)

\* C1: every invocation of translate_text, whatever the text, the label, the
\* target language and the backend's behaviour, ends by returning a string; no
\* exception leaves it.
C1_ReturnsString ==
    \A i \in DOMAIN calls :
        /\ ~calls[i].did.raised
        /\ IsString(calls[i].did.ret)

\* C2: with empty or whitespace-only text, translate_text returns the guidance
\* string for every label and language, and neither looks the label up in the
\* catalog nor constructs a client nor calls a backend.
C2_BlankTextGuidance ==
    \A i \in DOMAIN calls :
        WhitespaceOnly(calls[i].args.text) =>
            /\ IsStringOf(calls[i].did.ret, GuidanceText)
            /\ ~calls[i].did.raised
            /\ calls[i].did.lookups = <<>>
            /\ calls[i].did.outbound = <<>>
            /\ calls[i].did.client = "none"

C2_Witness ==
    \E i \in DOMAIN calls :
        /\ calls[i].args.text = <<" ">>
        /\ calls[i].args.engine = <<"OpenAI", "/", "GPT-4o">>
        /\ InCatalog(calls[i].args.engine)
        /\ IsStringOf(calls[i].did.ret, GuidanceText)

\* C3 as stated: for any non-empty text, a label whose backend is neither
\* "OpenAI" nor "Ollama" gets "No translation engine selected." and no backend
\* call.
C3_AsStated ==
    \A i \in DOMAIN calls :
        (calls[i].args.text # <<>> /\ ~Recognized(calls[i].args.engine)) =>
            /\ IsStringOf(calls[i].did.ret, NoEngineText)
            /\ calls[i].did.outbound = <<>>

\* C3 amended: for any text that is not empty or whitespace-only, a label whose
\* backend is neither "OpenAI" nor "Ollama" gets "No translation engine
\* selected." and no backend call.
C3_UnrecognizedBackend ==
    \A i \in DOMAIN calls :
        (~WhitespaceOnly(calls[i].args.text) /\ ~Recognized(calls[i].args.engine)) =>
            /\ IsStringOf(calls[i].did.ret, NoEngineText)
            /\ calls[i].did.outbound = <<>>

C3_Witness ==
    \E i \in DOMAIN calls :
        /\ calls[i].args.text = <<"hi">>
        /\ calls[i].args.engine = <<"Unknown", "/", "Whatever">>
        /\ IsStringOf(calls[i].did.ret, NoEngineText)
        /\ calls[i].did.outbound = <<>>

\* the case of C4 and C5: text "hi", target language "Japanese", a label
\* "<backend>/<any>", and a backend in working order: its client can be
\* constructed and it answers every call made with content v
StubCase(c, backend, v) ==
    /\ c.args.text = <<"hi">>
    /\ c.args.target_lang = <<"Japanese">>
    /\ BackendOf(c.args.engine) = <<backend>>
    /\ Len(c.args.engine) > 1
    /\ c.did.client # "raise"
    /\ \A k \in DOMAIN c.did.outbound :
          IF backend = "OpenAI"
          THEN OpenAIAnswers(c.did.outbound[k].reply, v)
          ELSE OllamaAnswers(c.did.outbound[k].reply, v)

\* C4 as stated: with an OpenAI-compatible backend answering "X",
\* translate_text("hi", "OpenAI/<any>", "Japanese") returns "X" whatever the
\* model name part of the label is.
C4_AsStated ==
    \A i \in DOMAIN calls :
        StubCase(calls[i], "OpenAI", Str(<<"X">>)) =>
            IsStringOf(calls[i].did.ret, <<"X">>)

\* C4 amended: with an OpenAI-compatible backend answering "X",
\* translate_text("hi", L, "Japanese") returns "X" for every label L
\* "OpenAI/<any>" that is a key of the catalog; the answer is fetched by one
\* call for the catalog's model identifier.
C4_OpenAIStub ==
    \A i \in DOMAIN calls :
        ( /\ StubCase(calls[i], "OpenAI", Str(<<"X">>))
          /\ InCatalog(calls[i].args.engine) ) =>
            /\ IsStringOf(calls[i].did.ret, <<"X">>)
            /\ Len(calls[i].did.outbound) = 1
            /\ \E k \in DOMAIN MODEL_DICT :
                  MODEL_DICT[k] = <<calls[i].args.engine, calls[i].did.outbound[1].model>>

C4_Witness ==
    \E i \in DOMAIN calls :
        /\ StubCase(calls[i], "OpenAI", Str(<<"X">>))
        /\ InCatalog(calls[i].args.engine)
        /\ calls[i].did.client = "ok"
        /\ Len(calls[i].did.outbound) = 1
        /\ IsStringOf(calls[i].did.ret, <<"X">>)

\* C5 as stated: with an Ollama-compatible backend answering "Y",
\* translate_text("hi", "Ollama/<any>", "Japanese") returns "Y" whatever the
\* model name part of the label is.
C5_AsStated ==
    \A i \in DOMAIN calls :
        StubCase(calls[i], "Ollama", Str(<<"Y">>)) =>
            IsStringOf(calls[i].did.ret, <<"Y">>)

\* C5 amended: with an Ollama-compatible backend answering "Y",
\* translate_text("hi", L, "Japanese") returns "Y" for every label L
\* "Ollama/<any>" that is a key of the catalog; the answer is fetched by one
\* call for the catalog's model identifier.
C5_OllamaStub ==
    \A i \in DOMAIN calls :
        ( /\ StubCase(calls[i], "Ollama", Str(<<"Y">>))
          /\ InCatalog(calls[i].args.engine) ) =>
            /\ IsStringOf(calls[i].did.ret, <<"Y">>)
            /\ Len(calls[i].did.outbound) = 1
            /\ \E k \in DOMAIN MODEL_DICT :
                  MODEL_DICT[k] = <<calls[i].args.engine, calls[i].did.outbound[1].model>>

C5_Witness ==
    \E i \in DOMAIN calls :
        /\ StubCase(calls[i], "Ollama", Str(<<"Y">>))
        /\ InCatalog(calls[i].args.engine)
        /\ Len(calls[i].did.outbound) = 1
        /\ IsStringOf(calls[i].did.ret, <<"Y">>)

\* every outbound call of c goes to the backend its label names
OwnBackendOnly(c) ==
    \A k \in DOMAIN c.did.outbound : <<c.did.outbound[k].api>> = BackendOf(c.args.engine)

\* C6 as stated: an invocation with a recognized backend and non-empty text
\* makes exactly one outbound call, to the backend of its label; any other
\* invocation makes none.
C6_AsStated ==
    \A i \in DOMAIN calls :
        /\ OwnBackendOnly(calls[i])
        /\ Len(calls[i].did.outbound) =
              IF Recognized(calls[i].args.engine) /\ calls[i].args.text # <<>>
              THEN 1 ELSE 0

\* C6 amended: an invocation makes exactly one outbound call, to the backend
\* of its label and never to the other one, when its text is not empty or
\* whitespace-only, its backend is recognized, its label is a key of the
\* catalog and, for "OpenAI", the client could be constructed; every other
\* invocation makes none.
C6_OneOutboundCall ==
    \A i \in DOMAIN calls :
        /\ OwnBackendOnly(calls[i])
        /\ Len(calls[i].did.outbound) =
              IF /\ Recognized(calls[i].args.engine)
                 /\ ~WhitespaceOnly(calls[i].args.text)
                 /\ InCatalog(calls[i].args.engine)
                 /\ calls[i].did.client # "raise"
              THEN 1 ELSE 0

C6_Witness ==
    \E i \in DOMAIN calls :
        /\ BackendOf(calls[i].args.engine) = <<"Ollama">>
        /\ Len(calls[i].did.outbound) = 1
        /\ calls[i].did.outbound[1].api = "Ollama"
        /\ calls[i].did.outbound[1].reply.raises

\* a dispatch-time failure: the label is no key of the catalog, the client or
\* the backend call raised, or the reply is malformed
Failure(c) ==
    \/ ~InCatalog(c.args.engine)
    \/ c.did.client = "raise"
    \/ \E k \in DOMAIN c.did.outbound :
          c.did.outbound[k].reply.raises \/ Malformed(c.did.outbound[k])

ContentHasErrorPrefix(c) ==
    \E k \in DOMAIN c.did.outbound, atoms \in SeqsUpTo({"X", "Y"}, 1) :
        LET v == Str(<<"Error occurred during translation: ">> \o atoms)
        IN  IF c.did.outbound[k].api = "OpenAI"
            THEN OpenAIAnswers(c.did.outbound[k].reply, v)
            ELSE OllamaAnswers(c.did.outbound[k].reply, v)

\* C7: with text that is not blank and a recognized backend, a dispatch-time
\* failure makes translate_text return a string that starts with "Error
\* occurred during translation: ", and it returns such a string only after a
\* failure or when the backend's content itself starts with it.
C7_ErrorPrefix ==
    \A i \in DOMAIN calls :
        (~WhitespaceOnly(calls[i].args.text) /\ Recognized(calls[i].args.engine)) =>
            /\ Failure(calls[i]) => HasErrorPrefix(calls[i].did.ret)
            /\ HasErrorPrefix(calls[i].did.ret) =>
                  Failure(calls[i]) \/ ContentHasErrorPrefix(calls[i])

-----------------------------------------------------------------------------
(* Properties of the script *)

BackendPart(c) ==
    <<c.did.client, [k \in DOMAIN c.did.outbound |-> c.did.outbound[k].reply]>>

C10_TranslationSlot ==
    /\ session_state = <<>>
    /\ translated_text = Str(<<>>)
    /\ [][ /\ button' = "Run Translation" =>
                /\ Len(calls') = 1
                /\ calls'[1].args = Args(text_to_translate, engine, tgt_lang)
                /\ session_state' = << <<"translation", calls'[1].did.ret>> >>
           /\ button' # "Run Translation" => session_state' = session_state
           /\ translated_text' =
                 IF session_state' = <<>> THEN Str(<<>>) ELSE session_state'[1][2] ]_vars

C10_Witness ==
    /\ button = "Compare"
    /\ Len(compare_display) = 2
    /\ session_state # <<>>
    /\ HasErrorPrefix(session_state[1][2])
    /\ translated_text = session_state[1][2]
    /\ \E i \in DOMAIN compare_display : compare_display[i].result # translated_text

====
